---- MODULE Spec2Model ----
(***************************************************************************)
(* Learner-modelling backend (app/services): the session orchestrator      *)
(* process_simulation_completion and the services it drives, over the      *)
(* relational tables they read and write.  Every db.commit() of the source *)
(* ends one step, so that two requests served at the same time interleave  *)
(* exactly where two database transactions of the source can interleave.   *)
(*                                                                         *)
(* Numbers: Python floats are modelled by exact rationals [n, d] (d > 0,   *)
(* lowest terms); a NULL float column is the record with d = 0.            *)
(***************************************************************************)
EXTENDS Integers, Sequences, FiniteSets, TLC

VARIABLES
    sessions,    \* simulation_sessions: id -> row
    logs,        \* interaction_logs, in insertion order
    masteries,   \* learner_competency_mastery rows, index = primary key
    affectives,  \* learner_affective_states rows, in timestamp order
    behaviors,   \* learner_behaviors rows, index = primary key
    tz_offset,   \* datetime.now() (naive local) minus the database clock
    req,         \* per worker: the request it is serving and its locals
    budget,      \* number of requests that may still arrive
    hist         \* history: observations and completions applied per key

tables == <<sessions, logs, masteries, affectives, behaviors>>
vars == <<sessions, logs, masteries, affectives, behaviors, tz_offset, req,
          budget, hist>>

-----------------------------------------------------------------------------
(* Bounds and identifier pools                                             *)

MaxCalls == 3
MaxUpdates == 5

ElapsedTimes == {30}
Workers == DOMAIN req
Learners == {1, 2}
\* the learner of the first, second and third session created
SessionLearners == <<1, 1, 2>>
SessionIds == DOMAIN SessionLearners
MissingSessionIds == {9}
Competences == {1, 2}
MissingCompetenceIds == {7}

-----------------------------------------------------------------------------
(* Exact rational arithmetic                                               *)

Abs(x) == IF x < 0 THEN -x ELSE x

RECURSIVE GCD(_, _)
GCD(a, b) == IF b = 0 THEN a ELSE GCD(b, a % b)

Rat(n, d) ==
    LET g == GCD(Abs(n), d)
    IN  [n |-> n \div g, d |-> d \div g]

NoneRat == [n |-> 0, d |-> 0]
IsNone(x) == x.d = 0
R(i) == [n |-> i, d |-> 1]
RAdd(a, b) ==
    LET g == GCD(a.d, b.d)
    IN  Rat(a.n * (b.d \div g) + b.n * (a.d \div g), (a.d \div g) * b.d)
RNeg(a) == [n |-> -a.n, d |-> a.d]
RSub(a, b) == RAdd(a, RNeg(b))
RMul(a, b) ==
    LET g1 == GCD(Abs(a.n), b.d)
        g2 == GCD(Abs(b.n), a.d)
    IN  Rat((a.n \div g1) * (b.n \div g2), (a.d \div g2) * (b.d \div g1))
RInv(a) == IF a.n < 0 THEN [n |-> -a.d, d |-> -a.n] ELSE [n |-> a.d, d |-> a.n]
RDiv(a, b) == RMul(a, RInv(b))
RLe(a, b) ==
    LET g == GCD(a.d, b.d)
    IN  a.n * (b.d \div g) <= b.n * (a.d \div g)
RLt(a, b) == ~RLe(b, a)
RMin(a, b) == IF RLe(a, b) THEN a ELSE b
RMax(a, b) == IF RLe(b, a) THEN a ELSE b

\* Python's `x or default` on a nullable float: None and 0.0 are both falsy.
OrElse(x, default) == IF IsNone(x) \/ x.n = 0 THEN default ELSE x

\* round(x, 2): nearest multiple of 1/100, ties to even.
Round2(x) ==
    LET s == x.n * 100
        q == s \div x.d
        r == s % x.d
        up == (2 * r > x.d) \/ (2 * r = x.d /\ q % 2 = 1)
    IN  Rat(IF up THEN q + 1 ELSE q, 100)

RECURSIVE SumRat(_)
SumRat(s) == IF s = <<>> THEN R(0) ELSE RAdd(Head(s), SumRat(Tail(s)))

-----------------------------------------------------------------------------
(* knowledge_update_service.py                                             *)

DEFAULT_P_INIT == Rat(2, 10)
DEFAULT_P_TRANSIT == Rat(15, 100)
DEFAULT_P_GUESS == Rat(2, 10)
DEFAULT_P_SLIP == Rat(1, 10)
DEFAULT_THRESHOLD == R(50)

_clamp01(value) == RMax(R(0), RMin(R(1), value))

score_to_correct(score, threshold) == RLe(threshold, score)

\* a guard that takes a zero denominator for certainty, not for no evidence
bkt_given_obs_certain(p_mastery, num, denom) ==
    IF denom.n # 0 THEN RDiv(num, denom) ELSE R(1)

\* P(mastered | observation), lines 53 and 59; denom = 0 keeps the prior
bkt_given_obs(p_mastery, num, denom) ==
    IF denom.n # 0 THEN RDiv(num, denom) ELSE p_mastery

\* an evidence that weighs every answer against the chance of a wrong guess
bkt_evidence_unconditioned(p_mastery, correct, p_guess, p_slip, num) ==
    bkt_given_obs(p_mastery, num,
                  RAdd(num, RMul(RSub(R(1), p_mastery), RSub(R(1), p_guess))))

\* the evidence for a correct and for an incorrect answer, lines 48-59
bkt_evidence(p_mastery, correct, p_guess, p_slip, num) ==
    IF correct
    THEN bkt_given_obs(p_mastery, num, RAdd(num, RMul(RSub(R(1), p_mastery), p_guess)))
    ELSE bkt_given_obs(p_mastery, num,
                       RAdd(num, RMul(RSub(R(1), p_mastery), RSub(R(1), p_guess))))

\* A transition that adds p_transit to the posterior and does not clamp;
\* C10_MasteryInUnitInterval must tell it from bkt_transition.
bkt_transition_additive(p_given_obs, p_transit) ==
    RAdd(p_given_obs, p_transit)

\* the learning transition and the final clamp, lines 61-63
bkt_transition(p_given_obs, p_transit) ==
    _clamp01(RAdd(p_given_obs, RMul(RSub(R(1), p_given_obs), p_transit)))

\* lines 48-63, on the arguments clamped by lines 43-46
bkt_clamped(p_mastery, correct, p_transit, p_guess, p_slip) ==
    bkt_transition(
        bkt_evidence(p_mastery, correct, p_guess, p_slip,
                     IF correct THEN RMul(p_mastery, RSub(R(1), p_slip))
                     ELSE RMul(p_mastery, p_slip)),
        p_transit)

bkt_update(p_mastery, correct, p_transit, p_guess, p_slip) ==
    bkt_clamped(_clamp01(p_mastery), correct, _clamp01(p_transit),
                _clamp01(p_guess), _clamp01(p_slip))

\* An optional boolean argument (correct: bool = None).
NoneBool == [some |-> FALSE, val |-> FALSE]
SomeBool(b) == [some |-> TRUE, val |-> b]

update_mastery(current_level, score, correct, p_transit, p_guess, p_slip, threshold) ==
    LET obs_correct == IF correct.some THEN correct.val
                       ELSE score_to_correct(score, threshold)
    IN  bkt_update(current_level, obs_correct, p_transit, p_guess, p_slip)

calculate_confidence(nb_success, nb_failures, streak_correct) ==
    LET total == nb_success + nb_failures
        base_confidence == RMin(Rat(total, 20), Rat(8, 10))
        streak_bonus == RMin(Rat(streak_correct, 10), Rat(2, 10))
    IN  IF total = 0 THEN R(0)
        ELSE RMin(RAdd(base_confidence, streak_bonus), R(1))

-----------------------------------------------------------------------------
(* behavior_service.py                                                     *)

compute_engagement(sessions_n, activities, time_spent) ==
    LET sessions_score == RMin(Rat(sessions_n, 20), R(1))
        activities_score == RMin(Rat(activities, 50), R(1))
        time_score == RMin(Rat(time_spent, 36000), R(1))
        engagement == RAdd(RAdd(RMul(sessions_score, Rat(3, 10)),
                                RMul(activities_score, Rat(4, 10))),
                           RMul(time_score, Rat(3, 10)))
    IN  RMin(R(1), RMax(R(0), engagement))

-----------------------------------------------------------------------------
(* adaptation_engine.py: _generate_pedagogical_recommendation              *)

\* a recommendation whose "advance" theme accepts a motivation of 0.7
RecommendationThemeInclusive(score, avg_mastery, frustration, motivation, confidence) ==
    IF RLt(score, R(40))
    THEN (IF RLt(Rat(7, 10), frustration) THEN "basics_guided" ELSE "basics")
    ELSE IF RLt(score, R(60))
    THEN (IF RLt(avg_mastery, Rat(4, 10)) THEN "weak_competences" ELSE "same_level")
    ELSE IF RLt(score, R(80))
    THEN (IF RLt(confidence, Rat(5, 10)) THEN "build_confidence"
          ELSE "slightly_harder")
    ELSE (IF RLe(Rat(8, 10), avg_mastery) /\ RLe(Rat(7, 10), motivation)
          THEN "advance" ELSE "consolidate_then_progress")

\* lines 288-311: the recommendation, named by its theme in place of its text
RecommendationTheme(score, avg_mastery, frustration, motivation, confidence) ==
    IF RLt(score, R(40))
    THEN (IF RLt(Rat(7, 10), frustration) THEN "basics_guided" ELSE "basics")
    ELSE IF RLt(score, R(60))
    THEN (IF RLt(avg_mastery, Rat(4, 10)) THEN "weak_competences" ELSE "same_level")
    ELSE IF RLt(score, R(80))
    THEN (IF RLt(confidence, Rat(5, 10)) THEN "build_confidence"
          ELSE "slightly_harder")
    ELSE (IF RLe(Rat(8, 10), avg_mastery) /\ RLt(Rat(7, 10), motivation)
          THEN "advance" ELSE "consolidate_then_progress")

-----------------------------------------------------------------------------
(* adaptation_engine.py: _get_next_action                                  *)

\* int(x) of Python: truncation towards zero
IntOf(x) == IF x.n >= 0 THEN x.n \div x.d ELSE -((-x.n) \div x.d)
MaxInt(a, b) == IF a >= b THEN a ELSE b
MinInt(a, b) == IF a <= b THEN a ELSE b

\* lines 331-334: the mean mastery level, 0.5 for an empty list
AvgMastery(mastery_list) ==
    IF mastery_list = <<>> THEN Rat(5, 10)
    ELSE RDiv(SumRat([i \in DOMAIN mastery_list |-> mastery_list[i].mastery_level]),
              R(Len(mastery_list)))

\* the second branch of the difficulty levels without its lower bound
NextDifficultyUnfloored(score, avg_mastery, frustration, motivation, confidence) ==
    IF RLt(score, R(40)) \/ RLt(Rat(7, 10), frustration) THEN 1
    ELSE IF RLt(score, R(60)) \/ RLt(avg_mastery, Rat(4, 10))
         THEN IntOf(RMul(avg_mastery, R(5)))
    ELSE IF RLt(score, R(80))
         THEN IF RLt(confidence, Rat(5, 10))
              THEN MaxInt(1, IntOf(RMul(avg_mastery, R(5))))
              ELSE MinInt(5, IntOf(RMul(avg_mastery, R(5))) + 1)
    ELSE IF RLe(Rat(8, 10), avg_mastery) /\ RLt(Rat(7, 10), motivation)
         THEN MinInt(5, IntOf(RMul(avg_mastery, R(5))) + 1)
         ELSE IntOf(RMul(avg_mastery, R(5)))

\* lines 340-364: the recommended difficulty
NextDifficulty(score, avg_mastery, frustration, motivation, confidence) ==
    IF RLt(score, R(40)) \/ RLt(Rat(7, 10), frustration) THEN 1
    ELSE IF RLt(score, R(60)) \/ RLt(avg_mastery, Rat(4, 10))
         THEN MaxInt(1, IntOf(RMul(avg_mastery, R(5))))
    ELSE IF RLt(score, R(80))
         THEN IF RLt(confidence, Rat(5, 10))
              THEN MaxInt(1, IntOf(RMul(avg_mastery, R(5))))
              ELSE MinInt(5, IntOf(RMul(avg_mastery, R(5))) + 1)
    ELSE IF RLe(Rat(8, 10), avg_mastery) /\ RLt(Rat(7, 10), motivation)
         THEN MinInt(5, IntOf(RMul(avg_mastery, R(5))) + 1)
         ELSE IntOf(RMul(avg_mastery, R(5)))

\* the kind of the action when a frustration of 0.7 already overrides
NextActionTypeInclusive(score, avg_mastery, frustration, motivation, confidence) ==
    IF RLt(score, R(40)) \/ RLe(Rat(7, 10), frustration) THEN "revise_fundamentals"
    ELSE IF RLt(score, R(60)) \/ RLt(avg_mastery, Rat(4, 10))
         THEN "practice_current_level"
    ELSE IF RLt(score, R(80))
         THEN IF RLt(confidence, Rat(5, 10)) THEN "build_confidence"
              ELSE "progress_next_level"
    ELSE IF RLe(Rat(8, 10), avg_mastery) /\ RLt(Rat(7, 10), motivation)
         THEN "challenge"
         ELSE "consolidate"

\* lines 340-364: the kind of the action
NextActionType(score, avg_mastery, frustration, motivation, confidence) ==
    IF RLt(score, R(40)) \/ RLt(Rat(7, 10), frustration) THEN "revise_fundamentals"
    ELSE IF RLt(score, R(60)) \/ RLt(avg_mastery, Rat(4, 10))
         THEN "practice_current_level"
    ELSE IF RLt(score, R(80))
         THEN IF RLt(confidence, Rat(5, 10)) THEN "build_confidence"
              ELSE "progress_next_level"
    ELSE IF RLe(Rat(8, 10), avg_mastery) /\ RLt(Rat(7, 10), motivation)
         THEN "challenge"
         ELSE "consolidate"

\* lines 366-372: the dictionary returned
NextActionDict(action_type, difficulty, frustration, confidence) ==
    [action_type |-> action_type,
     recommended_difficulty |-> difficulty,
     estimated_duration_min |-> 20 + (difficulty * 10),
     support_level |-> IF RLt(Rat(5, 10), frustration) THEN "high"
                       ELSE IF RLt(confidence, Rat(5, 10)) THEN "medium" ELSE "low"]

NextActionFrom(score, avg_mastery, frustration, motivation, confidence) ==
    NextActionDict(
        NextActionType(score, avg_mastery, frustration, motivation, confidence),
        NextDifficulty(score, avg_mastery, frustration, motivation, confidence),
        frustration, confidence)

_get_next_action(score, mastery_list, affective) ==
    NextActionFrom(score, AvgMastery(mastery_list), affective.frustration,
                   affective.motivation, affective.confidence)

\* lines 276-286, then the theme
_generate_pedagogical_recommendation(score, mastery_list, affective) ==
    RecommendationTheme(score, AvgMastery(mastery_list), affective.frustration,
                        affective.motivation, affective.confidence)

-----------------------------------------------------------------------------
(* affective_service.py                                                    *)

\* the four score bands without the min and max that bound each value
AffectiveByScoreUnbounded(motivation, frustration, confidence, stress, score) ==
    LET c(k) == Rat(k, 100)
    IN  IF RLt(score, R(50)) THEN
            [m |-> RSub(motivation, c(10)), f |-> RAdd(frustration, c(15)),
             c |-> RSub(confidence, c(15)), s |-> RAdd(stress, c(10))]
        ELSE IF RLt(score, R(70)) THEN
            [m |-> RAdd(motivation, c(5)), f |-> RSub(frustration, c(5)),
             c |-> RSub(confidence, c(5)), s |-> RSub(stress, c(5))]
        ELSE IF RLt(score, R(85)) THEN
            [m |-> RAdd(motivation, c(15)), f |-> RSub(frustration, c(10)),
             c |-> RAdd(confidence, c(10)), s |-> RSub(stress, c(10))]
        ELSE
            [m |-> RAdd(motivation, c(20)), f |-> RSub(frustration, c(15)),
             c |-> RAdd(confidence, c(20)), s |-> RSub(stress, c(15))]

\* lines 35-61: the four score bands
AffectiveByScore(motivation, frustration, confidence, stress, score) ==
    LET lo(x) == RMax(R(0), x)
        hi(x) == RMin(R(1), x)
        c(k) == Rat(k, 100)
    IN  IF RLt(score, R(50)) THEN
            [m |-> lo(RSub(motivation, c(10))), f |-> hi(RAdd(frustration, c(15))),
             c |-> lo(RSub(confidence, c(15))), s |-> hi(RAdd(stress, c(10)))]
        ELSE IF RLt(score, R(70)) THEN
            [m |-> hi(RAdd(motivation, c(5))), f |-> lo(RSub(frustration, c(5))),
             c |-> lo(RSub(confidence, c(5))), s |-> lo(RSub(stress, c(5)))]
        ELSE IF RLt(score, R(85)) THEN
            [m |-> hi(RAdd(motivation, c(15))), f |-> lo(RSub(frustration, c(10))),
             c |-> hi(RAdd(confidence, c(10))), s |-> lo(RSub(stress, c(10)))]
        ELSE
            [m |-> hi(RAdd(motivation, c(20))), f |-> lo(RSub(frustration, c(15))),
             c |-> hi(RAdd(confidence, c(20))), s |-> lo(RSub(stress, c(15)))]

\* lines 63-72: the adjustment by the progress since the previous score
AffectiveByProgress(v, progress) ==
    LET lo(x) == RMax(R(0), x)
        hi(x) == RMin(R(1), x)
        c(k) == Rat(k, 100)
    IN  IF RLt(R(10), progress) THEN
            [v EXCEPT !.m = hi(RAdd(v.m, c(10))), !.c = hi(RAdd(v.c, c(10)))]
        ELSE IF RLt(progress, R(-10)) THEN
            [v EXCEPT !.f = hi(RAdd(v.f, c(10))), !.c = lo(RSub(v.c, c(10)))]
        ELSE v

\* lines 74-79: the four values rounded to two decimals
AffectiveRounded(u) ==
    [motivation |-> Round2(u.m), frustration |-> Round2(u.f),
     confidence |-> Round2(u.c), stress |-> Round2(u.s)]

\* previous_score is NoneRat when the caller passes none
update_affective_state(motivation, frustration, confidence, stress, score, previous_score) ==
    AffectiveRounded(
        AffectiveByProgress(
            AffectiveByScore(motivation, frustration, confidence, stress, score),
            IF IsNone(previous_score) THEN R(0) ELSE RSub(score, previous_score)))

-----------------------------------------------------------------------------
(* models/competence_clinique.py: the BKT parameters of a competence are   *)
(* read-only properties returning fixed values.                            *)

CompetenceClinique == [p_init |-> Rat(2, 10), p_transit |-> Rat(15, 100),
                       p_guess |-> Rat(2, 10), p_slip |-> Rat(1, 10)]

-----------------------------------------------------------------------------
(* Request payloads: the action_content of a logged action                 *)

\* {"competence_id": c, "score": s}
Content(c, s) ==
    [kind |-> "dict", competence_id |-> c, score_kind |-> "num", score |-> s]
\* {"competence_id": c, "score": "abc"}: a score that is not a number
BadScore(c) ==
    [kind |-> "dict", competence_id |-> c, score_kind |-> "str", score |-> 0]
\* no action_content at all
NoContent ==
    [kind |-> "none", competence_id |-> 0, score_kind |-> "none", score |-> 0]

\* the bodies of the completion requests: <<actions, diagnostic_correct>>
Completions ==
    { << << Content(1, 40), Content(1, 60) >>, TRUE >>,
      << << Content(2, 20), Content(7, 60) >>, FALSE >>,
      << << BadScore(1) >>, TRUE >> }

-----------------------------------------------------------------------------
(* knowledge_inference_service.py: extract_competences_from_actions        *)

\* competence_scores[comp_id].append(score) on a dict kept in insertion order
AddScore(cs, comp_id, score) ==
    IF \E i \in DOMAIN cs : cs[i].competence_id = comp_id
    THEN [i \in DOMAIN cs |->
            IF cs[i].competence_id = comp_id
            THEN [cs[i] EXCEPT !.scores = Append(@, score)]
            ELSE cs[i]]
    ELSE Append(cs, [competence_id |-> comp_id, scores |-> <<score>>])

\* The loop over the interactions; float(score) of a string raises ValueError.
RECURSIVE ExtractLoop(_, _)
ExtractLoop(interactions, cs) ==
    IF interactions = <<>> THEN [ok |-> TRUE, competence_scores |-> cs]
    ELSE LET content == Head(interactions).action_content
             rest == Tail(interactions)
         IN  IF content.kind # "dict" THEN ExtractLoop(rest, cs)
             ELSE IF content.competence_id = 0 \/ content.score_kind = "none"
                  THEN ExtractLoop(rest, cs)
             ELSE IF content.score_kind # "num"
                  THEN [ok |-> FALSE, competence_scores |-> cs]
             ELSE ExtractLoop(rest, AddScore(cs, content.competence_id, R(content.score)))

extract_competences_from_actions(session_id) ==
    ExtractLoop(SelectSeq(logs, LAMBDA l : l.session_id = session_id), <<>>)

-----------------------------------------------------------------------------
(* adaptation_engine.py: _calculate_session_score                          *)

RECURSIVE AllScores(_)
AllScores(cs) == IF cs = <<>> THEN <<>> ELSE Head(cs).scores \o AllScores(Tail(cs))

\* the session score from the mean of the first competence's scores only
_calculate_session_score_first_only(competence_scores, diagnostic_correct) ==
    IF competence_scores = <<>>
    THEN (IF diagnostic_correct THEN R(80) ELSE R(20))
    ELSE Round2(RMin(R(100), RMax(R(0),
             RAdd(RMul(RDiv(SumRat(competence_scores[1].scores),
                            R(Len(competence_scores[1].scores))), Rat(6, 10)),
                  RMul(IF diagnostic_correct THEN R(100) ELSE R(0), Rat(4, 10))))))

_calculate_session_score(competence_scores, diagnostic_correct) ==
    IF competence_scores = <<>>
    THEN (IF diagnostic_correct THEN R(80) ELSE R(20))
    ELSE LET all_scores == AllScores(competence_scores)
             avg_competence_score == IF all_scores # <<>>
                                     THEN RDiv(SumRat(all_scores), R(Len(all_scores)))
                                     ELSE R(50)
             diagnostic_score == IF diagnostic_correct THEN R(100) ELSE R(0)
             final_score == RAdd(RMul(avg_competence_score, Rat(6, 10)),
                                 RMul(diagnostic_score, Rat(4, 10)))
         IN  Round2(RMin(R(100), RMax(R(0), final_score)))

-----------------------------------------------------------------------------
(* Rows and request records                                                *)

\* models/simulation_session.py; create_session sets statut, the database
\* sets start_time.  Times are seconds since the first session started.
SimulationSession(learner_id) ==
    [learner_id |-> learner_id, statut |-> "en_cours", start_time |-> 0,
     end_time |-> <<>>, score_final |-> NoneRat, temps_total |-> <<>>,
     raison_fin |-> "NULL"]

\* the LearnerCompetencyMastery built by infer_knowledge_from_interaction
LearnerCompetencyMastery(learner_id, competence_id, found) ==
    [learner_id |-> learner_id, competence_id |-> competence_id,
     mastery_level |-> IF found THEN CompetenceClinique.p_init ELSE DEFAULT_P_INIT,
     confidence |-> NoneRat, nb_success |-> 0, nb_failures |-> 0,
     streak_correct |-> 0]

\* a behavior row that is always the first learner's
LearnerBehaviorOfFirstLearner(learner_id) ==
    [learner_id |-> 1, sessions_count |-> 0, activities_count |-> 0,
     total_time_spent |-> 0, engagement_score |-> NoneRat]

\* the LearnerBehavior built by _update_learner_behavior
LearnerBehavior(learner_id) ==
    [learner_id |-> learner_id, sessions_count |-> 0, activities_count |-> 0,
     total_time_spent |-> 0, engagement_score |-> NoneRat]

\* no summary produced
NoSummary == [learner_id |-> 0]

\* no next action determined yet
NoAction == [action_type |-> "none", recommended_difficulty |-> 0,
             estimated_duration_min |-> 0, support_level |-> "none"]

NoAffective == [motivation |-> NoneRat, frustration |-> NoneRat,
                confidence |-> NoneRat, stress |-> NoneRat]

\* A worker that serves no request.  obj_id = 0 marks an ORM object that is
\* new (to be INSERTed); otherwise it is the primary key of the loaded row.
\* the arguments and the result of a call of bkt_update, and how many
\* times it has been applied to its own result; none before a call
NoBkt ==
    [p_mastery |-> NoneRat, correct |-> FALSE, p_transit |-> NoneRat,
     p_guess |-> NoneRat, p_slip |-> NoneRat, p_next |-> NoneRat, steps |-> 0]

IdleReq ==
    [pc |-> "idle", op |-> "none", error |-> "none",
     session_id |-> 0, learner_id |-> 0, diagnostic_correct |-> FALSE,
     status0 |-> "none", logs0 |-> 0,
     competence_scores |-> <<>>, ci |-> 0,
     competence_id |-> 0, score |-> NoneRat, correct |-> NoneBool,
     obj_id |-> 0, mastery |-> LearnerCompetencyMastery(0, 0, FALSE),
     updated_masteries |-> <<>>,
     score_final |-> NoneRat, temps_total |-> 0, affective_result |-> NoAffective,
     behavior |-> LearnerBehavior(0), recommendation |-> "none",
     next_action |-> NoAction, summary |-> NoSummary, bkt |-> NoBkt]

\* The UPDATE a commit emits sets only the attributes the request changed on
\* the object it loaded; the other columns keep what the table holds.
Flush(db_row, loaded, changed) ==
    [k \in DOMAIN changed |-> IF changed[k] # loaded[k] THEN changed[k] ELSE db_row[k]]

AllKeys == Learners \X (Competences \cup MissingCompetenceIds)

\* A database that holds the sessions `started` and nothing else, `workers`
\* idle workers, `requests` requests to come.
InitWith(workers, requests, offsets, started) ==
    /\ sessions = started
    /\ logs = <<>>
    /\ masteries = <<>>
    /\ affectives = <<>>
    /\ behaviors = <<>>
    /\ tz_offset \in offsets
    /\ req = [w \in workers |-> IdleReq]
    /\ budget = requests
    /\ hist = [obs |-> [k \in AllKeys |-> 0],
               completions |-> [l \in Learners |-> 0],
               time |-> [l \in Learners |-> 0]]

Raise(w, r, err) ==
    req' = [req EXCEPT ![w] = [r EXCEPT !.pc = "failed", !.error = err]]

-----------------------------------------------------------------------------
(* simulation_session_service.py                                           *)

create_session(learner_id) ==
    /\ SessionIds \ DOMAIN sessions # {}
    /\ LET sid == CHOOSE x \in SessionIds \ DOMAIN sessions :
                      \A y \in SessionIds \ DOMAIN sessions : x <= y
       IN  sessions' = sessions @@ (sid :> SimulationSession(learner_id))
    /\ UNCHANGED <<logs, masteries, affectives, behaviors, tz_offset, req,
                   budget, hist>>

\* The clock is an input: func.now() returns a time, in seconds since the
\* first session started, no earlier than any time recorded for the session.
Clock(session_id) ==
    {e \in ElapsedTimes :
        /\ sessions[session_id].start_time <= e
        /\ sessions[session_id].end_time = <<>> \/ sessions[session_id].end_time[1] <= e}

\* the row complete_session commits
complete_session(session_id, score_final, raison_fin, now) ==
    LET session == sessions[session_id]
        temps_total == (now + tz_offset) - session.start_time
    IN  [session EXCEPT !.end_time = <<now>>, !.temps_total = <<temps_total>>,
                        !.score_final = score_final, !.statut = "termine",
                        !.raison_fin = raison_fin]

\* POST /sessions/{id}/complete
complete_simulation(session_id, score_final, raison_fin) ==
    /\ budget > 0
    /\ budget' = budget - 1
    /\ IF session_id \in DOMAIN sessions
       THEN \E e \in Clock(session_id) :
               sessions' = [sessions EXCEPT ![session_id] =
                               complete_session(session_id, score_final, raison_fin, e)]
       ELSE UNCHANGED sessions
    /\ UNCHANGED <<logs, masteries, affectives, behaviors, tz_offset, req, hist>>

\* An abandon that also forgets the learner's mastery; C7_AbandonFrame must
\* tell it from abandon_session.
abandon_session_forgetting(session_id, raison) ==
    /\ budget > 0
    /\ budget' = budget - 1
    /\ session_id \in DOMAIN sessions
    /\ \E e \in Clock(session_id) :
           sessions' = [sessions EXCEPT ![session_id] =
                           [@ EXCEPT !.end_time = <<e>>, !.statut = "abandonne",
                                     !.raison_fin = raison]]
    /\ masteries' = SelectSeq(masteries,
                       LAMBDA m : m.learner_id # sessions[session_id].learner_id)
    /\ UNCHANGED <<logs, affectives, behaviors, tz_offset, req, hist>>

\* abandon_session, as POST /sessions/{id}/abandon calls it
abandon_session(session_id, raison) ==
    /\ budget > 0
    /\ budget' = budget - 1
    /\ IF session_id \in DOMAIN sessions
       THEN \E e \in Clock(session_id) :
               sessions' = [sessions EXCEPT ![session_id] =
                               [@ EXCEPT !.end_time = <<e>>, !.statut = "abandonne",
                                         !.raison_fin = raison]]
       ELSE UNCHANGED sessions
    /\ UNCHANGED <<logs, masteries, affectives, behaviors, tz_offset, req, hist>>

-----------------------------------------------------------------------------
(* interaction_log_service.py                                              *)

\* the InteractionLog rows create_interactions_batch adds and commits
create_interactions_batch(session_id, actions) ==
    [i \in DOMAIN actions |-> [session_id |-> session_id, action_content |-> actions[i]]]

-----------------------------------------------------------------------------
(* adaptation_engine.py: process_simulation_completion, one step for each  *)
(* committed transaction                                                   *)

NewRequest(op, session_id, diagnostic_correct) ==
    [IdleReq EXCEPT !.op = op, !.session_id = session_id,
                    !.diagnostic_correct = diagnostic_correct,
                    !.status0 = IF session_id \in DOMAIN sessions
                                THEN sessions[session_id].statut ELSE "missing",
                    !.logs0 = Len(logs)]

\* A completion that records the actions before it looks the session up;
\* C8_MissingSessionNotFound must tell it from process_simulation_completion.
process_simulation_completion_recording_first(w, session_id, actions, diagnostic_correct) ==
    /\ logs' = logs \o create_interactions_batch(session_id, actions)
    /\ IF session_id \notin DOMAIN sessions
       THEN Raise(w, NewRequest("process", session_id, diagnostic_correct), "NotFound")
       ELSE req' = [req EXCEPT ![w] =
                      [NewRequest("process", session_id, diagnostic_correct)
                          EXCEPT !.pc = "extract",
                                 !.learner_id = sessions[session_id].learner_id]]
    /\ UNCHANGED <<sessions, masteries, affectives, behaviors>>

\* lines 53-62: look the session up, then record the actions
process_simulation_completion(w, session_id, actions, diagnostic_correct) ==
    LET r == NewRequest("process", session_id, diagnostic_correct)
    IN  IF session_id \notin DOMAIN sessions
        THEN /\ Raise(w, r, "NotFound")
             /\ UNCHANGED <<sessions, logs, masteries, affectives, behaviors>>
        ELSE /\ logs' = logs \o create_interactions_batch(session_id, actions)
             /\ req' = [req EXCEPT ![w] =
                          [r EXCEPT !.pc = "extract",
                                    !.learner_id = sessions[session_id].learner_id]]
             /\ UNCHANGED <<sessions, masteries, affectives, behaviors>>

\* a request arrives and is served by the first free worker
Invoke(w) ==
    /\ req[w].pc = "idle"
    /\ \A v \in Workers : v < w => req[v].pc # "idle"
    /\ budget > 0
    /\ budget' = budget - 1
    /\ UNCHANGED <<tz_offset, hist>>

\* a direct call of the service function
DirectCall(w, session_id, actions, diagnostic_correct) ==
    /\ Invoke(w)
    /\ process_simulation_completion(w, session_id, actions, diagnostic_correct)

\* api/adaptation_engine.py: POST /adaptation/process-simulation
process_simulation(w, session_id, actions, diagnostic_correct) ==
    /\ Invoke(w)
    /\ IF session_id \notin DOMAIN sessions
       THEN /\ Raise(w, NewRequest("process", session_id, diagnostic_correct), "NotFound")
            /\ UNCHANGED <<sessions, logs, masteries, affectives, behaviors>>
       ELSE IF sessions[session_id].statut = "termine"
       THEN /\ Raise(w, NewRequest("process", session_id, diagnostic_correct),
                     "InvalidState")
            /\ UNCHANGED <<sessions, logs, masteries, affectives, behaviors>>
       ELSE process_simulation_completion(w, session_id, actions, diagnostic_correct)

\* api/adaptation_engine.py: one item of POST /adaptation/batch-process
batch_process(w, session_id, actions, diagnostic_correct) ==
    /\ Invoke(w)
    /\ IF session_id \notin DOMAIN sessions
       THEN /\ Raise(w, NewRequest("process", session_id, diagnostic_correct), "NotFound")
            /\ UNCHANGED <<sessions, logs, masteries, affectives, behaviors>>
       ELSE process_simulation_completion(w, session_id, actions, diagnostic_correct)

\* sum(scores) / len(scores) if scores else 0
AvgScore(scores) ==
    IF scores # <<>> THEN RDiv(SumRat(scores), R(Len(scores))) ELSE R(0)

\* the next iteration of `for comp_id, scores in competence_scores.items()`,
\* or the steps after the loop
LoopAt(r, i) ==
    IF i <= Len(r.competence_scores)
    THEN [r EXCEPT !.pc = "infer_read", !.ci = i,
                   !.competence_id = r.competence_scores[i].competence_id,
                   !.score = AvgScore(r.competence_scores[i].scores),
                   !.correct = NoneBool]
    ELSE [r EXCEPT !.pc = "complete", !.ci = i]

\* lines 64-65: extract_competences_from_actions(db, session_id)
ExtractStep(w) ==
    /\ req[w].pc = "extract"
    /\ LET got == extract_competences_from_actions(req[w].session_id)
       IN  IF ~got.ok
           THEN Raise(w, req[w], "ValueError")
           ELSE req' = [req EXCEPT ![w] =
                          LoopAt([req[w] EXCEPT !.competence_scores = got.competence_scores], 1)]
    /\ UNCHANGED <<sessions, logs, masteries, affectives, behaviors, tz_offset, budget,
                   hist>>

-----------------------------------------------------------------------------
(* knowledge_inference_service.py: infer_knowledge_from_interaction        *)

\* lines 32-51: read the competence and the mastery row, or build a new row
\* and flush it.  Query.first() without ORDER BY may return any matching
\* row.  competence_id is a foreign key: flushing a row for a competence
\* that does not exist fails where the database enforces the constraint.
InferRead(w) ==
    /\ req[w].pc = "infer_read"
    /\ LET r == req[w]
           found == r.competence_id \in Competences
           rows == {i \in DOMAIN masteries :
                        /\ masteries[i].learner_id = r.learner_id
                        /\ masteries[i].competence_id = r.competence_id}
           created == [r EXCEPT !.pc = "infer_commit", !.obj_id = 0,
                                !.mastery = LearnerCompetencyMastery(
                                               r.learner_id, r.competence_id, found)]
       IN  IF rows # {}
           THEN \E i \in rows :
                   req' = [req EXCEPT ![w] =
                             [r EXCEPT !.pc = "infer_commit", !.obj_id = i,
                                       !.mastery = masteries[i]]]
           ELSE IF found
           THEN req' = [req EXCEPT ![w] = created]
           ELSE \/ Raise(w, r, "IntegrityError")
                \/ req' = [req EXCEPT ![w] = created]
    /\ UNCHANGED <<sessions, logs, masteries, affectives, behaviors, tz_offset, budget,
                   hist>>

\* an outcome taken from the score alone, whatever flag was supplied
InferIsCorrectByScore(r) == RLe(R(50), r.score)

\* an observation that counts as a success only above 50
InferIsCorrectStrict(r) ==
    IF r.correct.some THEN r.correct.val ELSE RLt(R(50), r.score)

\* line 54: is_correct = correct if correct is not None else (score >= 50)
InferIsCorrect(r) ==
    IF r.correct.some THEN r.correct.val ELSE RLe(R(50), r.score)

\* counters whose streak survives an incorrect observation
InferCountWithoutReset(loaded, is_correct) ==
    IF is_correct
    THEN [loaded EXCEPT !.nb_success = @ + 1, !.streak_correct = @ + 1]
    ELSE [loaded EXCEPT !.nb_failures = @ + 1]

\* lines 56-61: the counters and the streak
InferCount(loaded, is_correct) ==
    IF is_correct
    THEN [loaded EXCEPT !.nb_success = @ + 1, !.streak_correct = @ + 1]
    ELSE [loaded EXCEPT !.nb_failures = @ + 1, !.streak_correct = 0]

\* lines 64-74: BKT with the parameters of the competence, or the defaults
\* when the competence does not exist
InferMastery(r, params) ==
    update_mastery(OrElse(r.mastery.mastery_level, Rat(2, 10)), r.score, r.correct,
                   params.p_transit, params.p_guess, params.p_slip, DEFAULT_THRESHOLD)

\* lines 76-84: the new level and the confidence on the counted object
InferScore(counted, new_mastery) ==
    [counted EXCEPT
        !.mastery_level = new_mastery,
        !.confidence = calculate_confidence(counted.nb_success, counted.nb_failures,
                                            counted.streak_correct)]

\* the entry process_simulation_completion reports for an updated mastery
MasteryEntry(mastery) ==
    [competence_id |-> mastery.competence_id,
     mastery_level |-> Round2(OrElse(mastery.mastery_level, R(0))),
     confidence |-> Round2(OrElse(mastery.confidence, R(0)))]

\* lines 86-88: commit, refresh, return to the caller
InferStore(w, r, id, committed) ==
    /\ masteries' = committed
    /\ hist' = [hist EXCEPT !.obs[<<r.learner_id, r.competence_id>>] = @ + 1]
    /\ req' = [req EXCEPT ![w] =
                 IF r.op = "process"
                 THEN LoopAt([r EXCEPT !.mastery = committed[id], !.obj_id = id,
                                       !.updated_masteries =
                                           Append(@, MasteryEntry(committed[id]))],
                             r.ci + 1)
                 ELSE [r EXCEPT !.pc = "done", !.mastery = committed[id],
                                !.obj_id = id]]

InferFlush(w, r, changed) ==
    IF r.obj_id = 0
    THEN InferStore(w, r, Len(masteries) + 1, Append(masteries, changed))
    ELSE InferStore(w, r, r.obj_id,
                    [masteries EXCEPT ![r.obj_id] = Flush(@, r.mastery, changed)])

\* lines 53-88: count the observation, apply BKT, compute the confidence,
\* commit and refresh
InferCommit(w) ==
    /\ req[w].pc = "infer_commit"
    /\ InferFlush(w, req[w],
                  InferScore(InferCount(req[w].mastery, InferIsCorrect(req[w])),
                             InferMastery(req[w],
                                 IF req[w].competence_id \in Competences
                                 THEN CompetenceClinique
                                 ELSE [p_transit |-> DEFAULT_P_TRANSIT,
                                       p_guess |-> DEFAULT_P_GUESS,
                                       p_slip |-> DEFAULT_P_SLIP])))
    /\ UNCHANGED <<sessions, logs, affectives, behaviors, tz_offset, budget>>

\* a call of infer_knowledge_from_interaction outside a session completion
InferCall(w, learner_id, competence_id, score, correct) ==
    /\ req' = [req EXCEPT ![w] =
                 [IdleReq EXCEPT !.op = "infer", !.pc = "infer_read",
                                 !.learner_id = learner_id,
                                 !.competence_id = competence_id,
                                 !.score = R(score), !.correct = correct]]
    /\ UNCHANGED <<sessions, logs, masteries, affectives, behaviors>>

\* api/knowledge_inference.py: POST /knowledge/infer-from-interaction, which
\* answers 404 for a competence that does not exist (the learners of the
\* pool exist)
infer_from_interaction(w, learner_id, competence_id, score, correct) ==
    /\ Invoke(w)
    /\ IF competence_id \notin Competences
       THEN /\ Raise(w, [IdleReq EXCEPT !.op = "infer", !.learner_id = learner_id,
                                        !.competence_id = competence_id],
                     "NotFound")
            /\ UNCHANGED <<sessions, logs, masteries, affectives, behaviors>>
       ELSE InferCall(w, learner_id, competence_id, score, correct)

\* api/knowledge_inference.py: one item of POST /knowledge/batch-update
batch_update(w, learner_id, competence_id, score) ==
    /\ Invoke(w)
    /\ InferCall(w, learner_id, competence_id, score, NoneBool)

-----------------------------------------------------------------------------
(* adaptation_engine.py, lines 78-121                                      *)

\* lines 78-86: the session score, then complete_session
CompleteStep(w) ==
    /\ req[w].pc = "complete"
    /\ LET r == req[w]
           score_final == _calculate_session_score(r.competence_scores,
                                                   r.diagnostic_correct)
       IN  \E e \in Clock(r.session_id) :
             LET session == complete_session(r.session_id, score_final, "completed", e)
             IN  /\ sessions' = [sessions EXCEPT ![r.session_id] = session]
                 /\ req' = [req EXCEPT ![w] =
                              [r EXCEPT !.pc = "affective", !.score_final = score_final,
                                        !.temps_total = session.temps_total[1]]]
    /\ UNCHANGED <<logs, masteries, affectives, behaviors, tz_offset, budget, hist>>

\* lines 172-196: the new state from the latest one of the session, or from
\* the defaults when the session has none
AffectiveFrom(latest, session_score) ==
    update_affective_state(OrElse(latest.motivation_level, Rat(5, 10)),
                           OrElse(latest.frustration_level, R(0)),
                           OrElse(latest.confidence_level, Rat(5, 10)),
                           OrElse(latest.stress_level, R(0)),
                           session_score, NoneRat)

\* affective_service.py, record_affective_state: the row inserted
AffectiveRow(session_id, result) ==
    [session_id |-> session_id, stress_level |-> result.stress,
     confidence_level |-> result.confidence,
     motivation_level |-> result.motivation,
     frustration_level |-> result.frustration]

\* lines 198-210: record the new state and report it
AffectiveRecord(w, r, result) ==
    /\ affectives' = Append(affectives, AffectiveRow(r.session_id, result))
    /\ req' = [req EXCEPT ![w] =
                 [r EXCEPT !.pc = "behavior_read", !.affective_result = result]]

AffectiveLatest(rows) == affectives[CHOOSE i \in rows : \A j \in rows : j <= i]

\* lines 158-210: _update_session_affective_state
AffectiveStep(w) ==
    /\ req[w].pc = "affective"
    /\ IF \E i \in DOMAIN affectives : affectives[i].session_id = req[w].session_id
       THEN AffectiveRecord(w, req[w],
                AffectiveFrom(
                    AffectiveLatest({i \in DOMAIN affectives :
                                        affectives[i].session_id = req[w].session_id}),
                    req[w].score_final))
       ELSE AffectiveRecord(w, req[w],
                update_affective_state(Rat(5, 10), R(0), Rat(5, 10), R(0),
                                       req[w].score_final, NoneRat))
    /\ UNCHANGED <<sessions, logs, masteries, behaviors, tz_offset, budget, hist>>

\* api/learner_behavior.py: POST /affective/update-from-score, one
\* transaction.  MaxUpdates bounds the number of affective states recorded.
update_from_score(session_id, score) ==
    /\ session_id \in DOMAIN sessions
    /\ Len(affectives) < MaxUpdates
    /\ affectives' =
           Append(affectives,
               AffectiveRow(session_id,
                   IF \E i \in DOMAIN affectives : affectives[i].session_id = session_id
                   THEN AffectiveFrom(
                            AffectiveLatest({i \in DOMAIN affectives :
                                                affectives[i].session_id = session_id}),
                            score)
                   ELSE update_affective_state(Rat(5, 10), R(0), Rat(5, 10), R(0),
                                               score, NoneRat)))
    /\ UNCHANGED <<sessions, logs, masteries, behaviors, tz_offset, req, budget, hist>>

\* _update_learner_behavior, lines 228-240: get or create the row
BehaviorRead(w) ==
    /\ req[w].pc = "behavior_read"
    /\ LET r == req[w]
           rows == {i \in DOMAIN behaviors : behaviors[i].learner_id = r.learner_id}
       IN  IF rows # {}
           THEN \E i \in rows :
                   req' = [req EXCEPT ![w] =
                             [r EXCEPT !.pc = "behavior_commit", !.obj_id = i,
                                       !.behavior = behaviors[i]]]
           ELSE req' = [req EXCEPT ![w] =
                          [r EXCEPT !.pc = "behavior_commit", !.obj_id = 0,
                                    !.behavior = LearnerBehavior(r.learner_id)]]
    /\ UNCHANGED <<sessions, logs, masteries, affectives, behaviors, tz_offset, budget,
                   hist>>

\* _update_learner_behavior, lines 242-254: add to the counters, recompute
\* the engagement score, commit; then process_simulation_completion, lines
\* 94-121, determines the next action and returns
BehaviorCommit(w) ==
    /\ req[w].pc = "behavior_commit"
    /\ LET r == req[w]
           loaded == r.behavior
           session_time == r.temps_total
           counted == [loaded EXCEPT !.sessions_count = @ + 1,
                                     !.activities_count = @ + 1,
                                     !.total_time_spent = @ + session_time]
           changed == [counted EXCEPT !.engagement_score =
                          compute_engagement(counted.sessions_count,
                              counted.activities_count, counted.total_time_spent)]
           committed == IF r.obj_id = 0
                        THEN Append(behaviors, changed)
                        ELSE [behaviors EXCEPT ![r.obj_id] = Flush(@, loaded, changed)]
       IN  /\ behaviors' = committed
           /\ hist' = [hist EXCEPT !.completions[r.learner_id] = @ + 1,
                                   !.time[r.learner_id] = @ + session_time]
           /\ req' = [req EXCEPT ![w] =
                        [r EXCEPT !.pc = "done", !.behavior = changed,
                                  !.recommendation =
                                      _generate_pedagogical_recommendation(
                                          r.score_final, r.updated_masteries,
                                          r.affective_result),
                                  !.next_action =
                                      _get_next_action(r.score_final,
                                          r.updated_masteries, r.affective_result)]]
    /\ UNCHANGED <<sessions, logs, masteries, affectives, tz_offset, budget>>

\* the response is sent; the worker is free again
Return(w) ==
    /\ req[w].pc \in {"done", "failed"}
    /\ req' = [req EXCEPT ![w] = IdleReq]
    /\ UNCHANGED <<sessions, logs, masteries, affectives, behaviors, tz_offset, budget,
                   hist>>

-----------------------------------------------------------------------------
(* adaptation_engine.py: get_adaptation_summary.  Each part is the set of   *)
(* values the queries of one call may yield in the current state.          *)

\* knowledge_inference_service.py: get_learner_knowledge_summary
KnowledgeSummary(learner_id) ==
    LET rows == {i \in DOMAIN masteries : masteries[i].learner_id = learner_id}
        level == [i \in rows |-> OrElse(masteries[i].mastery_level, R(0))]
        ids == SelectSeq([i \in DOMAIN masteries |-> i], LAMBDA i : i \in rows)
    IN  IF rows = {}
        THEN [total_competences |-> 0, average_mastery |-> R(0),
              mastered_competences |-> 0, competences |-> {}]
        ELSE [total_competences |-> Cardinality(rows),
              average_mastery |->
                  Round2(RDiv(SumRat([k \in DOMAIN ids |-> level[ids[k]]]),
                              R(Cardinality(rows)))),
              mastered_competences |->
                  Cardinality({i \in rows : RLe(Rat(8, 10), level[i])}),
              competences |-> {MasteryEntry(masteries[i]) : i \in rows}]

\* performance_service.py: get_learner_performance_stats, the counts and the
\* mean of the final scores of the learner's completed sessions
PerformanceStats(learner_id) ==
    LET ended == SelectSeq([s \in DOMAIN sessions |-> s],
                     LAMBDA s : /\ sessions[s].learner_id = learner_id
                                /\ sessions[s].statut = "termine")
        scores == SelectSeq([k \in DOMAIN ended |-> sessions[ended[k]].score_final],
                            LAMBDA x : ~IsNone(x))
    IN  [total_sessions |-> Len(ended),
         average_score |-> IF scores = <<>> THEN R(0) ELSE Round2(AvgScore(scores))]

\* lines 401-418: the profile of the behavior row Query.first() returns
BehaviorProfiles(learner_id) ==
    IF \A i \in DOMAIN behaviors : behaviors[i].learner_id # learner_id
    THEN {[engagement_score |-> R(0), sessions |-> 0, activities |-> 0]}
    ELSE {[engagement_score |->
               Round2(compute_engagement(behaviors[i].sessions_count,
                          behaviors[i].activities_count, behaviors[i].total_time_spent)),
           sessions |-> behaviors[i].sessions_count,
           activities |-> behaviors[i].activities_count] :
             i \in {j \in DOMAIN behaviors : behaviors[j].learner_id = learner_id}}

\* lines 420-443: the latest affective state of the latest session
LatestAffectives(learner_id) ==
    LET own == {s \in DOMAIN sessions : sessions[s].learner_id = learner_id}
        latest == {s \in own :
                      \A t \in own : sessions[t].start_time <= sessions[s].start_time}
        rows(s) == {i \in DOMAIN affectives : affectives[i].session_id = s}
    IN  IF own = {} THEN {[label |-> "Aucune session"]}
        ELSE {IF rows(s) = {} THEN [label |-> "Non evalue"]
              ELSE [label |-> "evalue", state |-> AffectiveLatest(rows(s))] :
                  s \in latest}

\* lines 463-500
_determine_overall_status(avg_mastery, avg_score, engagement) ==
    LET composite_score ==
            RAdd(RAdd(RMul(avg_mastery, Rat(4, 10)),
                      RMul(RDiv(avg_score, R(100)), Rat(4, 10))),
                 RMul(engagement, Rat(2, 10)))
    IN  [level |-> IF RLe(Rat(8, 10), composite_score) THEN "excellent"
                   ELSE IF RLe(Rat(6, 10), composite_score) THEN "good"
                   ELSE IF RLe(Rat(4, 10), composite_score) THEN "moderate"
                   ELSE "needs_improvement",
         composite_score |-> Round2(composite_score)]

\* "generated_at": func.now() is a new now() expression with every call; it
\* stands for the time at which it is evaluated, and two of them never
\* compare equal.
GeneratedAt == {1, 2}

\* lines 377-460: the results one call may return in the current state
get_adaptation_summary(learner_id) ==
    {[learner_id |-> learner_id,
      knowledge_model |-> KnowledgeSummary(learner_id),
      performance_model |-> PerformanceStats(learner_id),
      behavioral_model |-> b,
      affective_state |-> a,
      overall_status |->
          _determine_overall_status(KnowledgeSummary(learner_id).average_mastery,
              PerformanceStats(learner_id).average_score, b.engagement_score),
      generated_at |-> t] :
        b \in BehaviorProfiles(learner_id), a \in LatestAffectives(learner_id),
        t \in GeneratedAt}

\* api/adaptation_engine.py: GET /adaptation/summary/{learner_id} (the
\* learners of the pool exist)
get_summary(w, learner_id) ==
    /\ Invoke(w)
    /\ \E result \in get_adaptation_summary(learner_id) :
           req' = [req EXCEPT ![w] =
                     [IdleReq EXCEPT !.op = "summary", !.pc = "done",
                                     !.learner_id = learner_id, !.summary = result]]
    /\ UNCHANGED <<sessions, logs, masteries, affectives, behaviors>>

-----------------------------------------------------------------------------
(* Inputs                                                                  *)

RequestedSessions == SessionIds \cup MissingSessionIds
CompletionScores == {65}
AbandonReasons == {"abandoned"}
\* <<learner_id, competence_id, score, correct>>
Observations == { <<1, 1, 30, NoneBool>>, <<1, 1, 50, NoneBool>>,
                  <<1, 7, 50, NoneBool>>, <<2, 1, 50, NoneBool>> }

Next ==
    \/ \E l \in {SessionLearners[n] : n \in {Len(sessions) + 1} \cap SessionIds} :
           create_session(l)
    \/ \E s \in RequestedSessions, c \in CompletionScores :
           complete_simulation(s, R(c), "completed")
    \/ \E s \in RequestedSessions, a \in AbandonReasons : abandon_session(s, a)
    \/ \E w \in Workers, s \in RequestedSessions, c \in Completions :
           DirectCall(w, s, c[1], c[2])
    \/ \E w \in Workers, s \in RequestedSessions, c \in Completions :
           process_simulation(w, s, c[1], c[2])
    \/ \E w \in Workers, s \in RequestedSessions, c \in Completions :
           batch_process(w, s, c[1], c[2])
    \/ \E w \in Workers, o \in Observations :
           infer_from_interaction(w, o[1], o[2], o[3], o[4])
    \/ \E w \in Workers, o \in Observations : batch_update(w, o[1], o[2], o[3])
    \/ \E w \in Workers : ExtractStep(w)
    \/ \E w \in Workers : InferRead(w)
    \/ \E w \in Workers : InferCommit(w)
    \/ \E w \in Workers : CompleteStep(w)
    \/ \E w \in Workers : AffectiveStep(w)
    \/ \E w \in Workers : BehaviorRead(w)
    \/ \E w \in Workers : BehaviorCommit(w)
    \/ \E w \in Workers : Return(w)

\* one adaptation request at a time
Init == InitWith({1}, MaxCalls, {0}, <<>>)
Spec == Init /\ [][Next]_vars

\* Two workers serve the requests of one learner at the same time.  The
\* learner's sessions are in progress, and each is submitted once, in the
\* order of the session ids.
ConcurrentSessions == [s \in SessionIds |-> SimulationSession(1)]
Unsubmitted ==
    {s \in DOMAIN sessions :
        sessions[s].statut = "en_cours" /\ \A w \in Workers : req[w].session_id # s}
NextToSubmit == {s \in Unsubmitted : \A t \in Unsubmitted : s <= t}
ConcurrentCompletions == { <<<<Content(1, 60)>>, TRUE>> }

NextConcurrent ==
    \/ \E w \in Workers, s \in NextToSubmit, c \in ConcurrentCompletions :
           batch_process(w, s, c[1], c[2])
    \/ \E w \in Workers : ExtractStep(w)
    \/ \E w \in Workers : InferRead(w)
    \/ \E w \in Workers : InferCommit(w)
    \/ \E w \in Workers : CompleteStep(w)
    \/ \E w \in Workers : AffectiveStep(w)
    \/ \E w \in Workers : BehaviorRead(w)
    \/ \E w \in Workers : BehaviorCommit(w)
    \/ \E w \in Workers : Return(w)

InitConcurrent == InitWith({1, 2}, MaxCalls, {0}, ConcurrentSessions)
SpecConcurrent == InitConcurrent /\ [][NextConcurrent]_vars

\* The application's local clock (datetime.now()) may run in another time
\* zone than the one the database returns start_time in: complete_session
\* subtracts the two wall-clock readings.
ClockOffsets == {-3600, 0}
InitClockSkew == InitWith({1}, MaxCalls, ClockOffsets, <<>>)
SpecClockSkew == InitClockSkew /\ [][Next]_vars

\* Two workers again, but the learner's second session is completed within
\* the second it was started in.
QuickSessions ==
    [s \in SessionIds |->
        [SimulationSession(1) EXCEPT !.start_time = IF s = 2 THEN 30 ELSE 0]]
InitQuickSession == InitWith({1, 2}, MaxCalls, {0}, QuickSessions)
SpecQuickSession == InitQuickSession /\ [][NextConcurrent]_vars

\* update_affective_state on its own: the tracked vector is the one row of
\* `affectives`, the default vector while there is none; every call replaces
\* it by the function's result.
AffectiveScores == {0, 49, 50, 70, 85, 100}
PreviousScores == {NoneRat, R(0), R(100)}
DefaultAffective ==
    [session_id |-> 1, stress_level |-> R(0), confidence_level |-> Rat(5, 10),
     motivation_level |-> Rat(5, 10), frustration_level |-> R(0)]
TrackedAffective == IF affectives = <<>> THEN DefaultAffective ELSE affectives[1]
TrackerUpdate(v, score, previous_score) ==
    /\ affectives' = <<AffectiveRow(1,
                         update_affective_state(v.motivation_level, v.frustration_level,
                             v.confidence_level, v.stress_level, score, previous_score))>>
    /\ UNCHANGED <<sessions, logs, masteries, behaviors, tz_offset, req, budget, hist>>

NextAffectiveTracker ==
    \E score \in AffectiveScores, previous_score \in PreviousScores :
        TrackerUpdate(TrackedAffective, R(score), previous_score)

\* empty tables, one idle worker, no request of the application to come
InitIdle == InitWith({1}, 0, {0}, <<>>)
SpecAffectiveTracker == InitIdle /\ [][NextAffectiveTracker]_vars

\* _generate_pedagogical_recommendation and _get_next_action on their own: a
\* worker is handed a score, a list of updated masteries and an affective
\* vector, and holds the recommendation and the action returned.
NextActionScores == {0, 39, 40, 59, 60, 79, 80, 100}
MasteryLevels == {R(0), Rat(19, 100), Rat(39, 100), Rat(4, 10), Rat(8, 10), R(1)}
MaxMasteries == 2
MasteryLists ==
    UNION {[1..n -> {[competence_id |-> 1, mastery_level |-> l, confidence |-> R(0)] :
                         l \in MasteryLevels}] : n \in 0..MaxMasteries}
AffectiveVectors ==
    [motivation : {Rat(5, 10), Rat(7, 10), Rat(8, 10)},
     frustration : {R(0), Rat(6, 10), Rat(7, 10), Rat(8, 10)},
     confidence : {Rat(4, 10), Rat(5, 10)}, stress : {R(0)}]

NextActionCall(w, score, mastery_list, affective) ==
    /\ req[w].pc = "idle"
    /\ req' = [req EXCEPT ![w] =
                 [IdleReq EXCEPT !.pc = "done", !.score_final = score,
                                 !.updated_masteries = mastery_list,
                                 !.affective_result = affective,
                                 !.recommendation =
                                     _generate_pedagogical_recommendation(
                                         score, mastery_list, affective),
                                 !.next_action =
                                     _get_next_action(score, mastery_list, affective)]]
    /\ UNCHANGED <<sessions, logs, masteries, affectives, behaviors, tz_offset,
                   budget, hist>>

NextNextAction ==
    \/ \E w \in Workers :
           /\ req[w].pc = "idle"
           /\ \E score \in NextActionScores, m \in MasteryLists,
                 a \in AffectiveVectors :
                  NextActionCall(w, R(score), m, a)
    \/ \E w \in Workers : Return(w)

SpecNextAction == InitIdle /\ [][NextNextAction]_vars

\* Every score a client submits is outside [0,100]: in an item of POST
\* /knowledge/batch-update, or in the payload of a logged action of a
\* completion.  The learner's sessions are in progress.
OutOfRangeScores == {-10, 150}

NextOutOfRange ==
    \/ \E w \in Workers, c \in Competences, score \in OutOfRangeScores :
           batch_update(w, 1, c, score)
    \/ \E w \in Workers, s \in NextToSubmit, score \in OutOfRangeScores :
           batch_process(w, s, <<Content(1, score)>>, TRUE)
    \/ \E w \in Workers : ExtractStep(w)
    \/ \E w \in Workers : InferRead(w)
    \/ \E w \in Workers : InferCommit(w)
    \/ \E w \in Workers : CompleteStep(w)
    \/ \E w \in Workers : AffectiveStep(w)
    \/ \E w \in Workers : BehaviorRead(w)
    \/ \E w \in Workers : BehaviorCommit(w)
    \/ \E w \in Workers : Return(w)

InitSequential == InitWith({1}, MaxCalls, {0}, ConcurrentSessions)
SpecOutOfRange == InitSequential /\ [][NextOutOfRange]_vars

\* One worker serves the completions of the learner's sessions and the
\* requests for the learner's summary.
NextSummary ==
    \/ \E w \in Workers, s \in NextToSubmit, c \in Completions :
           batch_process(w, s, c[1], c[2])
    \/ \E w \in Workers, l \in Learners : get_summary(w, l)
    \/ \E w \in Workers : ExtractStep(w)
    \/ \E w \in Workers : InferRead(w)
    \/ \E w \in Workers : InferCommit(w)
    \/ \E w \in Workers : CompleteStep(w)
    \/ \E w \in Workers : AffectiveStep(w)
    \/ \E w \in Workers : BehaviorRead(w)
    \/ \E w \in Workers : BehaviorCommit(w)
    \/ \E w \in Workers : Return(w)

SpecSummary == InitSequential /\ [][NextSummary]_vars

\* Clients report scores for the sessions in progress through POST
\* /affective/update-from-score.
UpdateScores == {30, 90}
NextUpdateFromScore ==
    \E s \in SessionIds, score \in UpdateScores : update_from_score(s, R(score))
SpecUpdateFromScore == InitSequential /\ [][NextUpdateFromScore]_vars

\* _calculate_session_score on its own: a worker is handed the scores
\* extracted for at most two competences and holds the score returned.
ScorePool == {R(0), Rat(1, 100), R(50), R(100)}
MaxScores == 2
ScoreLists == UNION {[1..n -> ScorePool] : n \in 1..MaxScores}
ExtractedScores ==
    {<<>>}
      \cup {<<[competence_id |-> 1, scores |-> a]>> : a \in ScoreLists}
      \cup {<<[competence_id |-> 1, scores |-> a], [competence_id |-> 2, scores |-> b]>> :
                a \in ScoreLists, b \in ScoreLists}

SessionScoreCall(w, competence_scores, diagnostic_correct) ==
    /\ req[w].pc = "idle"
    /\ req' = [req EXCEPT ![w] =
                 [IdleReq EXCEPT !.pc = "done", !.op = "score",
                                 !.competence_scores = competence_scores,
                                 !.diagnostic_correct = diagnostic_correct,
                                 !.score_final =
                                     _calculate_session_score(competence_scores,
                                                              diagnostic_correct)]]
    /\ UNCHANGED <<sessions, logs, masteries, affectives, behaviors, tz_offset,
                   budget, hist>>

NextSessionScore ==
    \/ \E w \in Workers, cs \in ExtractedScores, d \in BOOLEAN :
           SessionScoreCall(w, cs, d)
    \/ \E w \in Workers : Return(w)

SpecSessionScore == InitIdle /\ [][NextSessionScore]_vars

\* bkt_update on its own: prior masteries and parameters over [0,1], the
\* ends included, and the update applied again to its own result with the
\* same parameters and the same observation.
MaxRepeats == 4
BktPriors == {R(0), Rat(1, 2), Rat(3, 4), R(1)}
BktParameters ==
    [p_transit : {R(0), Rat(1, 2), R(1)},
     p_guess : {R(0), Rat(1, 4), Rat(1, 2), R(1)},
     p_slip : {R(0), Rat(1, 4), Rat(3, 4), R(1)}]

BktCall(w, p_mastery, correct, params) ==
    /\ req[w].pc = "idle"
    /\ req' = [req EXCEPT ![w] =
                 [IdleReq EXCEPT !.pc = "done",
                                 !.bkt = [p_mastery |-> p_mastery, correct |-> correct,
                                          p_transit |-> params.p_transit,
                                          p_guess |-> params.p_guess,
                                          p_slip |-> params.p_slip,
                                          p_next |-> bkt_update(p_mastery, correct,
                                                                params.p_transit,
                                                                params.p_guess,
                                                                params.p_slip),
                                          steps |-> 1]]]
    /\ UNCHANGED <<sessions, logs, masteries, affectives, behaviors, tz_offset,
                   budget, hist>>

BktRepeat(w) ==
    /\ req[w].pc = "done"
    /\ req[w].bkt.steps \in 1..(MaxRepeats - 1)
    /\ req' = [req EXCEPT ![w].bkt.p_mastery = req[w].bkt.p_next,
                          ![w].bkt.p_next = bkt_update(req[w].bkt.p_next,
                                                       req[w].bkt.correct,
                                                       req[w].bkt.p_transit,
                                                       req[w].bkt.p_guess,
                                                       req[w].bkt.p_slip),
                          ![w].bkt.steps = req[w].bkt.steps + 1]
    /\ UNCHANGED <<sessions, logs, masteries, affectives, behaviors, tz_offset,
                   budget, hist>>

NextBkt ==
    \/ \E w \in Workers :
           /\ req[w].pc = "idle"
           /\ \E p \in BktPriors, c \in BOOLEAN, params \in BktParameters :
                  BktCall(w, p, c, params)
    \/ \E w \in Workers : BktRepeat(w)
    \/ \E w \in Workers : Return(w)

SpecBkt == InitIdle /\ [][NextBkt]_vars

\* Observations sent to POST /knowledge/infer-from-interaction with and
\* without the optional `correct` flag: <<learner_id, competence_id, score,
\* correct>>.
FlagObservations == { <<1, 1, 30, SomeBool(TRUE)>>, <<1, 1, 90, SomeBool(FALSE)>>,
                      <<1, 1, 50, NoneBool>>, <<1, 1, 49, NoneBool>>,
                      <<1, 2, 50, SomeBool(FALSE)>> }
NextExplicitFlag ==
    \/ \E w \in Workers, o \in FlagObservations :
           infer_from_interaction(w, o[1], o[2], o[3], o[4])
    \/ \E w \in Workers : InferRead(w)
    \/ \E w \in Workers : InferCommit(w)
    \/ \E w \in Workers : Return(w)
SpecExplicitFlag == Init /\ [][NextExplicitFlag]_vars

-----------------------------------------------------------------------------
(* Properties                                                              *)

InUnitInterval(x) == ~IsNone(x) /\ RLe(R(0), x) /\ RLe(x, R(1))

\* the value of `field` summed over the rows of `table` that `Match` accepts
SumOver(table, Match(_), field) ==
    LET sum[i \in 0..Len(table)] ==
            IF i = 0 THEN 0
            ELSE sum[i - 1] + (IF Match(table[i]) THEN table[i][field] ELSE 0)
    IN  sum[Len(table)]

\* C1: a completion request for a session that is already 'termine' is
\* rejected, whichever way it arrives (direct call, process-simulation,
\* batch-process), and applies no mastery update.
C1_TerminatedSessionRejected ==
    \A w \in Workers :
        (req[w].op = "process" /\ req[w].status0 = "termine")
            => (req[w].pc = "failed" /\ req[w].updated_masteries = <<>>)

\* C2: the status of a session leaves 'en_cours' only for 'termine' or
\* 'abandonne', and once it is terminal no step changes the status, the final
\* score, the end time or the reason of the session again.
C2_TerminalStatusFinal ==
    [][\A s \in DOMAIN sessions :
          /\ sessions'[s].statut # sessions[s].statut
                => /\ sessions[s].statut = "en_cours"
                   /\ sessions'[s].statut \in {"termine", "abandonne"}
          /\ sessions[s].statut \in {"termine", "abandonne"}
                => /\ sessions'[s].statut = sessions[s].statut
                   /\ sessions'[s].score_final = sessions[s].score_final
                   /\ sessions'[s].end_time = sessions[s].end_time
                   /\ sessions'[s].raison_fin = sessions[s].raison_fin]_vars

\* C3: a completion request for a session that is 'abandonne' is rejected as
\* an invalid state.
C3_AbandonedSessionRejected ==
    \A w \in Workers :
        (req[w].op = "process" /\ req[w].status0 = "abandonne")
            => (req[w].pc = "failed" /\ req[w].error = "InvalidState")

\* C4: a completion that fails after the session lookup leaves nothing
\* behind: no interaction log and no mastery update of the call remains.
C4_FailedCompletionLeavesNothing ==
    \A w \in Workers :
        (/\ req[w].op = "process"
         /\ req[w].pc = "failed"
         /\ req[w].error \notin {"NotFound", "InvalidState"})
            => (Len(logs) = req[w].logs0 /\ req[w].updated_masteries = <<>>)

\* C5: the success and failure counts stored for a (learner, competence)
\* add up to the number of observations applied to it, also when the
\* observations are applied at the same time.
C5_NoObservationLost ==
    \A k \in AllKeys :
        LET OfKey(m) == m.learner_id = k[1] /\ m.competence_id = k[2]
        IN  SumOver(masteries, OfKey, "nb_success")
                + SumOver(masteries, OfKey, "nb_failures") = hist.obs[k]

\* C6: the session count, the activity count and the total time stored for
\* a learner are the number of the learner's completions and the sum of
\* their elapsed times, also when the completions overlap.
C6_NoCompletionLost ==
    \A l \in Learners :
        LET OfLearner(b) == b.learner_id = l
        IN  /\ SumOver(behaviors, OfLearner, "sessions_count") = hist.completions[l]
            /\ SumOver(behaviors, OfLearner, "activities_count") = hist.completions[l]
            /\ SumOver(behaviors, OfLearner, "total_time_spent") = hist.time[l]

\* C7: abandon_session on a session in progress sets the status to
\* 'abandonne', records the reason and an end time, and leaves the mastery,
\* affective and behavior tables as they were.
C7_AbandonFrame ==
    [][\A s \in SessionIds, a \in AbandonReasons :
          (/\ s \in DOMAIN sessions
           /\ sessions[s].statut = "en_cours"
           /\ abandon_session(s, a))
              => /\ sessions'[s].statut = "abandonne"
                 /\ sessions'[s].raison_fin = a
                 /\ sessions'[s].end_time # <<>>
                 /\ UNCHANGED <<masteries, affectives, behaviors>>]_vars

\* a session abandoned while it was in progress, of a learner who has
\* mastery, affective and behavior rows
C7_AbandonedWithLearnerState ==
    \E s \in DOMAIN sessions :
        /\ sessions[s].statut = "abandonne"
        /\ sessions[s].raison_fin \in AbandonReasons
        /\ sessions[s].end_time # <<>>
        /\ IsNone(sessions[s].score_final)
        /\ \E i \in DOMAIN masteries : masteries[i].learner_id = sessions[s].learner_id
        /\ \E i \in DOMAIN behaviors : behaviors[i].learner_id = sessions[s].learner_id
        /\ affectives # <<>>

\* C8: process_simulation_completion called with a session id that does not
\* exist raises the not-found error and changes no table.
C8_MissingSessionNotFound ==
    [][\A w \in Workers, s \in RequestedSessions, c \in Completions :
          (s \notin DOMAIN sessions /\ DirectCall(w, s, c[1], c[2]))
              => /\ req'[w].pc = "failed"
                 /\ req'[w].error = "NotFound"
                 /\ UNCHANGED tables]_vars

\* a completion request for a missing session has failed as not found,
\* after other completions have filled the tables
C8_MissingSessionFailed ==
    \E w \in Workers :
        /\ req[w].op = "process"
        /\ req[w].status0 = "missing"
        /\ req[w].session_id \in MissingSessionIds
        /\ req[w].pc = "failed"
        /\ req[w].error = "NotFound"
        /\ logs # <<>>

\* C9: an action or an observation that names a competence that does not
\* exist ends in a not-found error, and no mastery row exists for that id.
C9_MissingCompetenceNotFound ==
    /\ \A i \in DOMAIN masteries : masteries[i].competence_id \in Competences
    /\ \A w \in Workers :
          (/\ req[w].competence_id \in MissingCompetenceIds
           /\ req[w].pc \notin {"idle", "infer_read"})
              => (req[w].pc = "failed" /\ req[w].error = "NotFound")

\* C10: every mastery row holds a mastery level and a confidence between 0
\* and 1.
C10_MasteryInUnitInterval ==
    \A i \in DOMAIN masteries :
        /\ InUnitInterval(masteries[i].mastery_level)
        /\ InUnitInterval(masteries[i].confidence)

\* a mastery row that three observations have updated
C10_MasteryAfterObservations ==
    \E i \in DOMAIN masteries :
        /\ masteries[i].nb_success + masteries[i].nb_failures >= 3
        /\ masteries[i].nb_success >= 1
        /\ masteries[i].nb_failures >= 1

\* C11: no step decreases the session count, the activity count or the
\* total time of a behavior row, whatever elapsed time complete_session
\* has recorded for the session.
C11_CountersNeverDecrease ==
    [][\A i \in DOMAIN behaviors :
          /\ behaviors'[i].sessions_count >= behaviors[i].sessions_count
          /\ behaviors'[i].activities_count >= behaviors[i].activities_count
          /\ behaviors'[i].total_time_spent >= behaviors[i].total_time_spent]_vars

\* C12: in every state, the engagement score of every behavior row is the
\* engagement function of that row's own three counters.
C12_EngagementFromCounters ==
    \A i \in DOMAIN behaviors :
        behaviors[i].engagement_score =
            compute_engagement(behaviors[i].sessions_count,
                behaviors[i].activities_count, behaviors[i].total_time_spent)

\* C13: from the default vector, after any sequence of update_affective_state
\* calls with scores in [0,100], with or without a previous score, motivation,
\* frustration, confidence and stress all lie in [0,1].
C13_AffectiveInUnitInterval ==
    \A i \in DOMAIN affectives :
        /\ InUnitInterval(affectives[i].motivation_level)
        /\ InUnitInterval(affectives[i].frustration_level)
        /\ InUnitInterval(affectives[i].confidence_level)
        /\ InUnitInterval(affectives[i].stress_level)

\* the updates have driven components to both ends of the interval
C13_AffectiveAtTheEnds ==
    /\ affectives # <<>>
    /\ affectives[1].motivation_level = R(0)
    /\ affectives[1].confidence_level = R(0)
    /\ affectives[1].frustration_level = R(1)
    /\ affectives[1].stress_level = R(1)

\* C14: for every score in [0,100], every affective vector in [0,1] and every
\* list of mastery levels in [0,1], the empty list included, the next action
\* recommends a difficulty between 1 and 5.
C14_DifficultyInRange ==
    \A w \in Workers :
        req[w].pc = "done" => req[w].next_action.recommended_difficulty \in 1..5

\* a high score with an empty mastery list, and one with a low mean mastery
C14_HighScoreEmptyList ==
    \E w \in Workers :
        /\ req[w].pc = "done"
        /\ req[w].score_final = R(100)
        /\ req[w].updated_masteries = <<>>
        /\ req[w].next_action.action_type = "consolidate"

\* C15: extracting the scores of a session never raises: an action whose
\* payload is absent, not a mapping, incomplete or carries a score that is
\* not a number is skipped, and no request fails in the extraction.
C15_MalformedPayloadSkipped ==
    \A w \in Workers : req[w].error # "ValueError"

\* C16: a score outside [0,100] is rejected before anything is written.  When
\* every submitted score is outside the range, no mastery row and no
\* affective state is ever created and no session leaves "en_cours".
C16_OutOfRangeRejected ==
    /\ masteries = <<>>
    /\ affectives = <<>>
    /\ \A s \in DOMAIN sessions : sessions[s].statut = "en_cours"

\* C17: get_adaptation_summary called again with no event in between returns
\* the result of the first call.  While the one worker holds the summary it
\* has produced nothing else happens, so every result a call can return in
\* that state is the summary held.
C17_SummaryRepeatable ==
    \A w \in Workers :
        (req[w].op = "summary" /\ req[w].pc = "done")
            => \A result \in get_adaptation_summary(req[w].learner_id) :
                   result = req[w].summary

\* the scores the logged actions of a session carry for a competence
ObservedScores(session_id, competence_id) ==
    LET carrying == SelectSeq(logs, LAMBDA l :
                        /\ l.session_id = session_id
                        /\ l.action_content.kind = "dict"
                        /\ l.action_content.score_kind = "num"
                        /\ l.action_content.competence_id = competence_id)
    IN  [i \in DOMAIN carrying |-> R(carrying[i].action_content.score)]

\* C18: a completion applies one observation to the mastery record of each
\* competence its session has observed scores for: the step that commits it
\* adds one to the successes when the mean of those scores is at least 50
\* and one to the failures otherwise, and leaves every other mastery record
\* as it is; when the loop ends it has done so once for each such competence.
C18_OneObservationPerCompetency ==
    [][\A w \in Workers :
          /\ (req[w].op = "process" /\ req[w].pc = "infer_commit" /\ req'[w] # req[w])
                => LET OfKey(m) == /\ m.learner_id = req[w].learner_id
                                   /\ m.competence_id = req[w].competence_id
                       observed == ObservedScores(req[w].session_id, req[w].competence_id)
                       success == IF observed # <<>>
                                     /\ RLe(R(50), RDiv(SumRat(observed), R(Len(observed))))
                                  THEN 1 ELSE 0
                   IN  /\ observed # <<>>
                       /\ SumOver(masteries', OfKey, "nb_success")
                              = SumOver(masteries, OfKey, "nb_success") + success
                       /\ SumOver(masteries', OfKey, "nb_failures")
                              = SumOver(masteries, OfKey, "nb_failures") + (1 - success)
                       /\ \A i \in DOMAIN masteries :
                              ~OfKey(masteries[i]) => masteries'[i] = masteries[i]
                       /\ \A i \in DOMAIN masteries' \ DOMAIN masteries :
                              OfKey(masteries'[i])
          /\ (req[w].op = "process" /\ req[w].pc # "complete" /\ req'[w].pc = "complete")
                => LET updated == req'[w].updated_masteries
                   IN  /\ \A i, j \in DOMAIN updated :
                              updated[i].competence_id = updated[j].competence_id => i = j
                       /\ {updated[i].competence_id : i \in DOMAIN updated}
                              = {c \in Competences \cup MissingCompetenceIds :
                                    ObservedScores(req[w].session_id, c) # <<>>}]_vars

\* a completion has applied a second observation to a mastery record, from
\* two scores whose mean is exactly 50
C18_SecondObservationApplied ==
    \E w \in Workers, i \in DOMAIN masteries :
        /\ req[w].op = "process"
        /\ req[w].pc = "complete"
        /\ masteries[i].nb_success = 2
        /\ masteries[i].competence_id = 1
        /\ Len(ObservedScores(req[w].session_id, 1)) = 2

\* C19: when an affective state is recorded for a session that already has
\* one, it is update_affective_state applied to exactly the stored values of
\* the session's latest state, for the score submitted.
C19_PriorValuesUsed ==
    [][Len(affectives') = Len(affectives) + 1
          => LET new == affectives'[Len(affectives')]
                 rows == {i \in DOMAIN affectives :
                              affectives[i].session_id = new.session_id}
             IN  rows # {}
                   => \E score \in UpdateScores :
                          new = AffectiveRow(new.session_id,
                                    update_affective_state(
                                        AffectiveLatest(rows).motivation_level,
                                        AffectiveLatest(rows).frustration_level,
                                        AffectiveLatest(rows).confidence_level,
                                        AffectiveLatest(rows).stress_level,
                                        R(score), NoneRat))]_vars

\* the sum and the number of all the scores of all the competences
PooledSum(cs) == SumRat([k \in DOMAIN cs |-> SumRat(cs[k].scores)])
PooledCount(cs) == SumOver([k \in DOMAIN cs |-> [n |-> Len(cs[k].scores)]],
                           LAMBDA e : TRUE, "n")
\* 0.6 * mean of the pooled scores + 0.4 * (100 if the diagnostic is correct)
WeightedScore(cs, diagnostic_correct) ==
    RAdd(RMul(Rat(6, 10), RDiv(PooledSum(cs), R(PooledCount(cs)))),
         RMul(Rat(4, 10), IF diagnostic_correct THEN R(100) ELSE R(0)))

\* C20: the session score is 80 or 20, by the diagnostic, when no score was
\* extracted; otherwise it is 0.6 * mean of the pooled scores + 0.4 * (100
\* if the diagnostic is correct, else 0), rounded to two decimals; it lies
\* in [0,100].
C20_SessionScoreRounded ==
    \A w \in Workers :
        (req[w].op = "score" /\ req[w].pc = "done")
            => /\ req[w].competence_scores = <<>>
                     => req[w].score_final =
                            (IF req[w].diagnostic_correct THEN R(80) ELSE R(20))
               /\ req[w].competence_scores # <<>>
                     => req[w].score_final =
                            Round2(WeightedScore(req[w].competence_scores,
                                                 req[w].diagnostic_correct))
               /\ RLe(R(0), req[w].score_final)
               /\ RLe(req[w].score_final, R(100))

\* scores of two competences pooled, with a weighted mean that has more than
\* two decimals
C20_PooledScoreRounded ==
    \E w \in Workers :
        /\ req[w].op = "score"
        /\ req[w].pc = "done"
        /\ Len(req[w].competence_scores) = 2
        /\ Len(req[w].competence_scores[1].scores) # Len(req[w].competence_scores[2].scores)
        /\ req[w].score_final
              # WeightedScore(req[w].competence_scores, req[w].diagnostic_correct)

\* C20 as stated: with extracted scores the session score is the weighted
\* mean itself.
C20_SessionScoreExact ==
    \A w \in Workers :
        (req[w].op = "score" /\ req[w].pc = "done" /\ req[w].competence_scores # <<>>)
            => req[w].score_final =
                   WeightedScore(req[w].competence_scores, req[w].diagnostic_correct)

\* the outcome of an observation: the flag when one is supplied, else
\* score >= 50
Outcome(correct, score) == IF correct.some THEN correct.val ELSE RLe(R(50), score)

\* C21: the step that commits an observation counts it as a success when the
\* supplied flag says so, or, without a flag, when the score is at least 50,
\* and as a failure otherwise; the mastery level it stores is the BKT update
\* of the loaded level for that same outcome.
C21_FlagDecidesOutcome ==
    [][\A w \in Workers :
          (req[w].pc = "infer_commit" /\ req'[w] # req[w])
              => /\ req'[w].mastery.nb_success = req[w].mastery.nb_success
                        + (IF Outcome(req[w].correct, req[w].score) THEN 1 ELSE 0)
                 /\ req'[w].mastery.nb_failures = req[w].mastery.nb_failures
                        + (IF Outcome(req[w].correct, req[w].score) THEN 0 ELSE 1)
                 /\ req'[w].mastery.mastery_level
                        = bkt_update(OrElse(req[w].mastery.mastery_level, Rat(2, 10)),
                                     Outcome(req[w].correct, req[w].score),
                                     CompetenceClinique.p_transit,
                                     CompetenceClinique.p_guess,
                                     CompetenceClinique.p_slip)]_vars

\* a score of 30 flagged correct, a score of 90 flagged incorrect and an
\* unflagged score of exactly 50 have been recorded on one mastery record
C21_FlaggedAgainstScore ==
    \E w \in Workers :
        /\ req[w].pc = "done"
        /\ req[w].op = "infer"
        /\ req[w].score = R(90)
        /\ req[w].correct = SomeBool(FALSE)
        /\ req[w].mastery.nb_success = 2
        /\ req[w].mastery.nb_failures = 1

\* a worker holds the recommendation and the next action of a request
Advised(w) == req[w].pc = "done" /\ req[w].next_action # NoAction
\* the override of the next action: score < 40 or frustration > 0.7
Overridden(w) ==
    RLt(req[w].score_final, R(40)) \/ RLt(Rat(7, 10), req[w].affective_result.frustration)
\* round(x) to the nearest integer: a tie goes to the even neighbour or up
RoundInts(x) ==
    IF 2 * (x.n % x.d) > x.d THEN {(x.n \div x.d) + 1}
    ELSE IF 2 * (x.n % x.d) < x.d THEN {x.n \div x.d}
    ELSE {x.n \div x.d, (x.n \div x.d) + 1}

\* C22: when neither score < 40 nor frustration > 0.7, the recommended
\* difficulty is round(avg_mastery * 5) bounded to 1..5, whatever the kind
\* of the action.
C22_DifficultyIsRoundedMastery ==
    \A w \in Workers :
        (Advised(w) /\ ~Overridden(w))
            => \E rounded \in RoundInts(RMul(AvgMastery(req[w].updated_masteries), R(5))) :
                   req[w].next_action.recommended_difficulty
                       = MinInt(5, MaxInt(1, rounded))

\* C23: with score < 40 or frustration > 0.7 the next action is
\* 'revise_fundamentals' at difficulty 1, whatever the mastery, motivation
\* and confidence; a frustration of exactly 0.7 with score >= 40 is not one.
C23_OverrideRevisesFundamentals ==
    \A w \in Workers :
        Advised(w)
            => /\ Overridden(w)
                     => /\ req[w].next_action.recommended_difficulty = 1
                        /\ req[w].next_action.action_type = "revise_fundamentals"
               /\ (req[w].affective_result.frustration = Rat(7, 10)
                      /\ RLe(R(40), req[w].score_final))
                     => req[w].next_action.action_type # "revise_fundamentals"

\* the override applies to a top score with full mastery and high motivation
C23_OverrideAtTopScore ==
    \E w \in Workers :
        /\ Advised(w)
        /\ req[w].score_final = R(100)
        /\ req[w].affective_result.frustration = Rat(8, 10)
        /\ req[w].affective_result.motivation = Rat(8, 10)
        /\ AvgMastery(req[w].updated_masteries) = R(1)
        /\ req[w].next_action.action_type = "revise_fundamentals"

\* C24: with score >= 80 the "advance" recommendation is given only with
\* avg_mastery >= 0.8 and motivation > 0.7; at avg_mastery 0.8 and
\* motivation 0.7 the recommendation is "consolidate then progress".
C24_AdvanceNeedsStrictMotivation ==
    \A w \in Workers :
        (Advised(w) /\ RLe(R(80), req[w].score_final))
            => /\ req[w].recommendation = "advance"
                     => /\ RLe(Rat(8, 10), AvgMastery(req[w].updated_masteries))
                        /\ RLt(Rat(7, 10), req[w].affective_result.motivation)
               /\ (AvgMastery(req[w].updated_masteries) = Rat(8, 10)
                      /\ req[w].affective_result.motivation = Rat(7, 10))
                     => req[w].recommendation = "consolidate_then_progress"

\* score 80, mean mastery exactly 0.8, motivation exactly 0.7
C24_AtTheBoundary ==
    \E w \in Workers :
        /\ Advised(w)
        /\ req[w].score_final = R(80)
        /\ AvgMastery(req[w].updated_masteries) = Rat(8, 10)
        /\ req[w].affective_result.motivation = Rat(7, 10)
        /\ req[w].recommendation = "consolidate_then_progress"

\* C29: the next action is 'challenge' exactly when the recommendation is
\* the "advance" one.
C29_ChallengeIffAdvance ==
    \A w \in Workers :
        Advised(w)
            => (req[w].next_action.action_type = "challenge"
                  <=> req[w].recommendation = "advance")

\* a worker holds the result of bkt_update for a correct answer
BktCorrect(w) == req[w].pc = "done" /\ req[w].bkt.steps > 0 /\ req[w].bkt.correct

C26_PerfectEvidenceGivesOne ==
    \A w \in Workers :
        (BktCorrect(w) /\ req[w].bkt.p_guess = R(0) /\ req[w].bkt.p_slip = R(0))
            => req[w].bkt.p_next = R(1)

\* C26: with p_guess = p_slip = 0 and correct=True the next mastery is 1
\* for every prior mastery above 0; at prior mastery 0 the denominator is
\* zero, the prior is kept and the next mastery is p_transit.
C26_PerfectEvidenceAbovePriorZero ==
    \A w \in Workers :
        (BktCorrect(w) /\ req[w].bkt.p_guess = R(0) /\ req[w].bkt.p_slip = R(0))
            => req[w].bkt.p_next
                   = (IF req[w].bkt.p_mastery = R(0) THEN req[w].bkt.p_transit
                      ELSE R(1))

\* the zero-denominator guard applied: prior 0, no guess, no slip
C26_GuardApplied ==
    \E w \in Workers :
        /\ BktCorrect(w)
        /\ req[w].bkt.p_guess = R(0) /\ req[w].bkt.p_slip = R(0)
        /\ req[w].bkt.p_mastery = R(0)
        /\ req[w].bkt.p_transit = Rat(1, 2)
        /\ req[w].bkt.p_next = Rat(1, 2)

\* C27: every mastery record has streak_correct <= nb_success after every
\* step, and the step that commits an observation adds 1 to nb_success and
\* to streak_correct and leaves nb_failures for a correct observation, adds
\* 1 to nb_failures, resets streak_correct to 0 and leaves nb_success for an
\* incorrect one.
C27_StreakWithinSuccesses ==
    [][/\ \A i \in DOMAIN masteries' :
              masteries'[i].streak_correct <= masteries'[i].nb_success
       /\ \A w \in Workers :
              (req[w].pc = "infer_commit" /\ req'[w] # req[w])
                  => IF Outcome(req[w].correct, req[w].score)
                     THEN /\ req'[w].mastery.nb_success = req[w].mastery.nb_success + 1
                          /\ req'[w].mastery.streak_correct
                                 = req[w].mastery.streak_correct + 1
                          /\ req'[w].mastery.nb_failures = req[w].mastery.nb_failures
                     ELSE /\ req'[w].mastery.nb_failures = req[w].mastery.nb_failures + 1
                          /\ req'[w].mastery.streak_correct = 0
                          /\ req'[w].mastery.nb_success = req[w].mastery.nb_success]_vars

\* a success, a failure that resets the streak, then a success again
C27_StreakRestarted ==
    \E i \in DOMAIN masteries :
        /\ masteries[i].nb_success = 2
        /\ masteries[i].nb_failures = 1
        /\ masteries[i].streak_correct = 1

\* C28: in every reachable state there is at most one mastery record per
\* (learner_id, competence_id) and at most one behavior row per learner.
C28_OneRowPerKey ==
    /\ \A i, j \in DOMAIN masteries :
           (/\ masteries[i].learner_id = masteries[j].learner_id
            /\ masteries[i].competence_id = masteries[j].competence_id) => i = j
    /\ \A i, j \in DOMAIN behaviors :
           behaviors[i].learner_id = behaviors[j].learner_id => i = j

\* the rows of a table that a step must leave alone: each of them is in
\* the table before the step, at the same place and with the same values
Untouched(before, after, Others(_)) ==
    \A i \in DOMAIN after :
        Others(after[i]) => (i \in DOMAIN before /\ after[i] = before[i])

\* C30: no step of the completion of a session of learner A creates or
\* changes a mastery record or a behavior row of another learner, creates
\* an affective state of another session, or changes another session.
C30_CompletionFrame ==
    [][\A w \in Workers :
          (req'[w] # req[w] /\ req'[w].op = "process")
              => LET OtherLearner(row) == row.learner_id # req'[w].learner_id
                     OtherSession(row) == row.session_id # req'[w].session_id
                 IN  /\ Untouched(masteries, masteries', OtherLearner)
                     /\ Untouched(behaviors, behaviors', OtherLearner)
                     /\ Untouched(affectives, affectives', OtherSession)
                     /\ \A t \in DOMAIN sessions' :
                            t # req'[w].session_id
                                => (t \in DOMAIN sessions /\ sessions'[t] = sessions[t])]_vars

\* a completion for learner 1 has ended after the completion of a session
\* of learner 2 left that learner mastery, behavior and affective rows
C30_CompletedBesideOtherLearner ==
    \E w \in Workers :
        /\ req[w].op = "process" /\ req[w].pc = "done" /\ req[w].learner_id = 1
        /\ \E i, j \in DOMAIN masteries :
               i < j /\ masteries[i].learner_id = 2 /\ masteries[j].learner_id = 1
        /\ \E i, j \in DOMAIN behaviors :
               i < j /\ behaviors[i].learner_id = 2 /\ behaviors[j].learner_id = 1
        /\ \E i, j \in DOMAIN affectives :
               /\ i < j /\ affectives[j].session_id = req[w].session_id
               /\ affectives[i].session_id # req[w].session_id
               /\ sessions[affectives[i].session_id].statut = "termine"

====
